---------------------------- MODULE Spec2Model ----------------------------
(***************************************************************************)
(* Sticker label generator (src/in.py): column resolution, line-location   *)
(* parsing, logo fitting, the label generation pipeline with its QR        *)
(* payload, row heights and page breaks, and the width settings of main.   *)
(*                                                                         *)
(* Python strings are sequences of one-character strings, so that          *)
(* normalisation, substring tests and splitting are computed, not assumed. *)
(* Lengths are kept as exact rationals: a length in cm is an integer       *)
(* number of hundredths of a cm, a pixel count is an integer.              *)
(***************************************************************************)
EXTENDS Integers, Sequences, FiniteSets, TLC

(* ------------------------------ strings ------------------------------ *)

Uppers ==
  <<"A","B","C","D","E","F","G","H","I","J","K","L","M",
    "N","O","P","Q","R","S","T","U","V","W","X","Y","Z">>

Lowers ==
  <<"a","b","c","d","e","f","g","h","i","j","k","l","m",
    "n","o","p","q","r","s","t","u","v","w","x","y","z">>

Digits ==
  <<"0","1","2","3","4","5","6","7","8","9">>

Range(s) == { s[i] : i \in DOMAIN s }

AlnumChars == Range(Uppers) \cup Range(Lowers) \cup Range(Digits)

UpperChars == Range(Uppers)

LowerMap ==
  [c \in UpperChars |-> Lowers[CHOOSE i \in DOMAIN Uppers : Uppers[i] = c]]

\* [a-zA-Z0-9]
IsAlnum(c) == c \in AlnumChars

\* str.lower() on one character
Lower(c) == IF c \in UpperChars THEN LowerMap[c] ELSE c

\* re.sub(r'[^a-zA-Z0-9]', '', str(col_name)).lower()
normalize_column_name(col_name) ==
  LET kept == SelectSeq(col_name, IsAlnum)
  IN  [i \in DOMAIN kept |-> Lower(kept[i])]

\* Python's  a in b  on strings
IsSubstr(a, b) ==
  \E i \in 0..(Len(b) - Len(a)) : SubSeq(b, i + 1, i + Len(a)) = a

(* --------------------------- column aliases --------------------------- *)

column_mappings ==
  [ ASSLY |-> <<
        <<"a","s","s","l","y">>,   \* 'assly'
        <<"A","S","S","Y"," ","N","A","M","E">>,   \* 'ASSY NAME'
        <<"A","s","s","y"," ","N","a","m","e">>,   \* 'Assy Name'
        <<"a","s","s","y"," ","n","a","m","e">>,   \* 'assy name'
        <<"a","s","s","y","n","a","m","e">>,   \* 'assyname'
        <<"a","s","s","y","_","n","a","m","e">>,   \* 'assy_name'
        <<"A","s","s","y","_","n","a","m","e">>,   \* 'Assy_name'
        <<"A","s","s","e","m","b","l","y">>,   \* 'Assembly'
        <<"A","s","s","e","m","b","l","y"," ","N","a","m","e">>,   \* 'Assembly Name'
        <<"A","S","S","E","M","B","L","Y">>,   \* 'ASSEMBLY'
        <<"A","s","s","e","m","b","l","y","_","N","a","m","e">>    \* 'Assembly_Name'
      >>,
    part_no |-> <<
        <<"P","A","R","T","N","O">>,   \* 'PARTNO'
        <<"P","A","R","T","N","O",".">>,   \* 'PARTNO.'
        <<"P","a","r","t"," ","N","o">>,   \* 'Part No'
        <<"P","a","r","t"," ","N","u","m","b","e","r">>,   \* 'Part Number'
        <<"P","a","r","t","N","o">>,   \* 'PartNo'
        <<"p","a","r","t","n","u","m","b","e","r">>,   \* 'partnumber'
        <<"p","a","r","t"," ","n","o">>,   \* 'part no'
        <<"p","a","r","t","n","u","m">>,   \* 'partnum'
        <<"P","A","R","T">>,   \* 'PART'
        <<"p","a","r","t">>,   \* 'part'
        <<"P","r","o","d","u","c","t"," ","C","o","d","e">>,   \* 'Product Code'
        <<"I","t","e","m"," ","N","u","m","b","e","r">>,   \* 'Item Number'
        <<"I","t","e","m"," ","I","D">>,   \* 'Item ID'
        <<"I","t","e","m"," ","N","o">>,   \* 'Item No'
        <<"i","t","e","m">>,   \* 'item'
        <<"I","t","e","m">>    \* 'Item'
      >>,
    description |-> <<
        <<"D","E","S","C","R","I","P","T","I","O","N">>,   \* 'DESCRIPTION'
        <<"D","e","s","c","r","i","p","t","i","o","n">>,   \* 'Description'
        <<"D","e","s","c">>,   \* 'Desc'
        <<"P","a","r","t"," ","D","e","s","c","r","i","p","t","i","o","n">>,   \* 'Part Description'
        <<"I","t","e","m","D","e","s","c","r","i","p","t","i","o","n">>,   \* 'ItemDescription'
        <<"i","t","e","m"," ","d","e","s","c","r","i","p","t","i","o","n">>,   \* 'item description'
        <<"P","r","o","d","u","c","t"," ","D","e","s","c","r","i","p","t","i","o","n">>,   \* 'Product Description'
        <<"I","t","e","m"," ","D","e","s","c","r","i","p","t","i","o","n">>,   \* 'Item Description'
        <<"N","A","M","E">>,   \* 'NAME'
        <<"I","t","e","m"," ","N","a","m","e">>,   \* 'Item Name'
        <<"P","r","o","d","u","c","t"," ","N","a","m","e">>    \* 'Product Name'
      >>,
    Part_per_veh |-> <<
        <<"Q","Y","T">>,   \* 'QYT'
        <<"Q","T","Y"," ","/"," ","V","E","H">>,   \* 'QTY / VEH'
        <<"Q","t","y","/","V","e","h">>,   \* 'Qty/Veh'
        <<"Q","t","y"," ","B","i","n">>,   \* 'Qty Bin'
        <<"Q","u","a","n","t","i","t","y"," ","p","e","r"," ","B","i","n">>,   \* 'Quantity per Bin'
        <<"q","t","y"," ","b","i","n">>,   \* 'qty bin'
        <<"q","t","y","b","i","n">>,   \* 'qtybin'
        <<"q","u","a","n","t","i","t","y"," ","b","i","n">>,   \* 'quantity bin'
        <<"B","I","N"," ","Q","T","Y">>,   \* 'BIN QTY'
        <<"B","I","N","Q","T","Y">>,   \* 'BINQTY'
        <<"Q","T","Y","_","B","I","N">>,   \* 'QTY_BIN'
        <<"Q","T","Y","_","P","E","R","_","B","I","N">>,   \* 'QTY_PER_BIN'
        <<"B","i","n"," ","Q","u","a","n","t","i","t","y">>,   \* 'Bin Quantity'
        <<"B","I","N">>    \* 'BIN'
      >>,
    Type |-> <<
        <<"T","Y","P","E">>,   \* 'TYPE'
        <<"t","y","p","e">>,   \* 'type'
        <<"T","y","p","e">>,   \* 'Type'
        <<"t","y","P","e">>,   \* 'tyPe'
        <<"T","y","p","e"," ","n","a","m","e">>    \* 'Type name'
      >>,
    line_location |-> <<
        <<"L","I","N","E"," ","L","O","C","A","T","I","O","N">>,   \* 'LINE LOCATION'
        <<"L","i","n","e"," ","L","o","c","a","t","i","o","n">>,   \* 'Line Location'
        <<"l","i","n","e"," ","l","o","c","a","t","i","o","n">>,   \* 'line location'
        <<"L","I","N","E","L","O","C","A","T","I","O","N">>,   \* 'LINELOCATION'
        <<"l","i","n","e","l","o","c","a","t","i","o","n">>,   \* 'linelocation'
        <<"L","i","n","e","_","L","o","c","a","t","i","o","n">>,   \* 'Line_Location'
        <<"l","i","n","e","_","l","o","c","a","t","i","o","n">>,   \* 'line_location'
        <<"L","I","N","E","_","L","O","C","A","T","I","O","N">>,   \* 'LINE_LOCATION'
        <<"L","i","n","e","L","o","c","a","t","i","o","n">>,   \* 'LineLocation'
        <<"l","i","n","e","_","l","o","c">>,   \* 'line_loc'
        <<"l","i","n","e","l","o","c">>,   \* 'lineloc'
        <<"L","I","N","E","L","O","C">>,   \* 'LINELOC'
        <<"L","i","n","e"," ","L","o","c">>    \* 'Line Loc'
      >> ]

\* dict iteration order of column_mappings
KeyOrder ==
  <<"ASSLY", "part_no", "description", "Part_per_veh", "Type", "line_location">>

required_columns == <<"ASSLY", "part_no", "description">>

(* ----------------------------- find_column ---------------------------- *)

NoColumn == [found |-> FALSE, col |-> <<>>]

Column(c) == [found |-> TRUE, col |-> c]

NormNames(names) ==
  [i \in DOMAIN names |-> normalize_column_name(names[i])]

MinOf(S) == CHOOSE x \in S : \A y \in S : x <= y

MaxOf(S) == CHOOSE x \in S : \A y \in S : y <= x

\* {normalize_column_name(col): col for col in df.columns} as the sequence of
\* its items: a key keeps the place of its first insertion, its value is the
\* last column inserted under it
NormalizedDfColumns(cols) ==
  LET nc    == NormNames(cols)
      first == { i \in DOMAIN cols : \A j \in 1..(i - 1) : nc[j] # nc[i] }
      place(k) == CHOOSE i \in first : Cardinality({ j \in first : j < i }) = k - 1
  IN  [k \in 1..Cardinality(first) |->
         [key   |-> nc[place(k)],
          value |-> cols[MaxOf({ i \in DOMAIN cols : nc[i] = nc[place(k)] })]]]

\* first loop: the aliases, in declared order, that are a key of the dict
ExactHits(dict, norm) ==
  { i \in DOMAIN norm : \E k \in DOMAIN dict : dict[k].key = norm[i] }

\* second loop: partial matches as (alias, item) places
PartialHits(dict, norm) ==
  { p \in (DOMAIN norm) \X (DOMAIN dict) :
      IsSubstr(norm[p[1]], dict[p[2]].key) \/ IsSubstr(dict[p[2]].key, norm[p[1]]) }

\* the first pair of a nested loop: outer index first, then inner index
LexMin(pairs) ==
  CHOOSE p \in pairs :
    \A q \in pairs : p[1] < q[1] \/ (p[1] = q[1] /\ p[2] <= q[2])

IsLineLocKey(key) ==
  \/ /\ IsSubstr(<<"l","i","n","e">>, key)
     /\ IsSubstr(<<"l","o","c","a","t","i","o","n">>, key)
  \/ IsSubstr(<<"l","i","n","e","l","o","c">>, key)

\* third loop: line location keywords, whatever the aliases asked for
KeywordHits(dict) == { k \in DOMAIN dict : IsLineLocKey(dict[k].key) }

DictValue(dict, key) == dict[CHOOSE k \in DOMAIN dict : dict[k].key = key].value

find_column_partial_first(cols, possible_names) ==
  LET dict    == NormalizedDfColumns(cols)
      norm    == NormNames(possible_names)
      exact   == ExactHits(dict, norm)
      partial == PartialHits(dict, norm)
      kw      == KeywordHits(dict)
  IN  IF partial # {} THEN Column(dict[LexMin(partial)[2]].value)
      ELSE IF exact # {} THEN Column(DictValue(dict, norm[MinOf(exact)]))
      ELSE IF kw # {} THEN Column(dict[MinOf(kw)].value)
      ELSE NoColumn

find_column(cols, possible_names) ==
  LET dict    == NormalizedDfColumns(cols)
      norm    == NormNames(possible_names)
      exact   == ExactHits(dict, norm)
      partial == PartialHits(dict, norm)
      kw      == KeywordHits(dict)
  IN  IF exact # {} THEN Column(DictValue(dict, norm[MinOf(exact)]))
      ELSE IF partial # {} THEN Column(dict[LexMin(partial)[2]].value)
      ELSE IF kw # {} THEN Column(dict[MinOf(kw)].value)
      ELSE NoColumn

\* Python truthiness of find_column's result: None and '' are falsy
Truthy(r) == r.found /\ r.col # <<>>

\* found_columns after the loop over column_mappings
FoundColumns(cols) ==
  LET found_col == [k \in Range(KeyOrder) |-> find_column(cols, column_mappings[k])]
      hit       == { k \in Range(KeyOrder) : Truthy(found_col[k]) }
  IN  [k \in hit |-> found_col[k].col]

\* [col for col in required_columns if col not in found_columns]
MissingRequired(found) ==
  SelectSeq(required_columns, LAMBDA k : k \notin DOMAIN found)

(* ------------------------- parse_line_location ------------------------ *)

EmptyStr == <<>>

\* a cell of the DataFrame: a missing value (NaN) or a string
NaN == [isna |-> TRUE, s |-> EmptyStr]

Str(s) == [isna |-> FALSE, s |-> s]

\* str(value): NaN prints as 'nan'
PyStr(v) == IF v.isna THEN <<"n","a","n">> ELSE v.s

RECURSIVE Split(_, _)
\* s.split(sep) for a one-character separator
Split(s, sep) ==
  IF \A i \in DOMAIN s : s[i] # sep
    THEN <<s>>
    ELSE LET p == CHOOSE i \in DOMAIN s :
                    s[i] = sep /\ \A j \in 1..(i - 1) : s[j] # sep
         IN  <<SubSeq(s, 1, p - 1)>> \o Split(SubSeq(s, p + 1, Len(s)), sep)

\* lst[:n]
Take(lst, n) == SubSeq(lst, 1, IF n < Len(lst) THEN n ELSE Len(lst))

\* [x] * n, empty when n <= 0
Repeat(x, n) == [i \in 1..(IF n > 0 THEN n ELSE 0) |-> x]

NumBoxes == 4

parse_line_location_no_pad(location_string) ==
  IF location_string.isna \/ location_string.s = EmptyStr
    THEN <<EmptyStr, EmptyStr, EmptyStr, EmptyStr>>
    ELSE Take(Split(location_string.s, "_"), NumBoxes)

parse_line_location(location_string) ==
  IF location_string.isna \/ location_string.s = EmptyStr
    THEN <<EmptyStr, EmptyStr, EmptyStr, EmptyStr>>
    ELSE LET parts  == Split(location_string.s, "_")
             result == Take(parts, NumBoxes)
                         \o Repeat(EmptyStr, NumBoxes - Len(parts))
         IN  Take(result, NumBoxes)

(* ------------------------ process_uploaded_logo ----------------------- *)

DPI == 300

\* 2.54 cm to the inch, in hundredths of a cm
HundredthsPerInch == 254

\* int(target_cm * dpi / 2.54), the target given in hundredths of a cm
CmToPx(t) == (t * DPI) \div HundredthsPerInch

RECURSIVE GCD(_, _)
GCD(a, b) == IF b = 0 THEN a ELSE GCD(b, a % b)

RECURSIVE IsPow2(_)
IsPow2(n) == n = 1 \/ (n > 1 /\ n % 2 = 0 /\ IsPow2(n \div 2))

\* orig_width / orig_height is an exact double iff the reduced denominator is
\* a power of two
ExactAspect(img) == IsPow2(img.h \div GCD(img.w, img.h))

\* int(x) of the double computed for num/den through the rounded aspect ratio:
\* the floor of the exact quotient, except that an exactly integral quotient
\* reached through an inexact aspect ratio may come out one lower
IntOfQuotient(num, den, img) ==
  {num \div den} \cup
    (IF num % den = 0 /\ num > 0 /\ ~ExactAspect(img)
       THEN {(num \div den) - 1}
       ELSE {})

FitSizeStretch(img, box_width_px, box_height_px) ==
  {<<box_width_px, box_height_px>>}

FitSizeSwapped(img, box_width_px, box_height_px) ==
  IF img.w * box_height_px > box_width_px * img.h
    THEN { <<new_width, box_height_px>> :
             new_width \in IntOfQuotient(box_height_px * img.w, img.h, img) }
    ELSE { <<box_width_px, new_height>> :
             new_height \in IF img.w = 0 THEN {0}
                            ELSE IntOfQuotient(box_width_px * img.h, img.w, img) }

\* (new_width, new_height) for an image of non-zero height and a box of
\* non-zero pixel height
FitSize(img, box_width_px, box_height_px) ==
  IF img.w * box_height_px > box_width_px * img.h
    THEN { <<box_width_px, new_height>> :
             new_height \in IntOfQuotient(box_width_px * img.h, img.w, img) }
    ELSE { <<new_width, box_height_px>> :
             new_width \in IntOfQuotient(box_height_px * img.w, img.h, img) }

LogoNone == [ok |-> FALSE, w |-> 0, h |-> 0]

LogoImage(new_width, new_height) == [ok |-> TRUE, w |-> new_width, h |-> new_height]

ResizedNoCheck(size) == LogoImage(size[1], size[2])

\* logo_img.resize(...) and .save(...): a size with a dimension below one
\* pixel raises, which the handler turns into None
Resized(size) ==
  IF size[1] < 1 \/ size[2] < 1 THEN LogoNone ELSE LogoImage(size[1], size[2])

\* the outcomes of process_uploaded_logo: None after an exception, or the
\* image with its pixel size (its size in cm is px * 2.54 / dpi)
process_uploaded_logo(img, target_width_cm, target_height_cm) ==
  LET box_width_px  == CmToPx(target_width_cm)
      box_height_px == CmToPx(target_height_cm)
  IN  IF img.h = 0 \/ box_height_px = 0
        THEN {LogoNone}
        ELSE { Resized(size) : size \in FitSize(img, box_width_px, box_height_px) }

(* ------------------------------- inputs ------------------------------- *)

MaxCols == 3

MaxRows == 2

\* raw column names a data file may carry
ColumnPool ==
  { <<"A","s","s","y"," ","N","a","m","e">>,                              \* 'Assy Name'
    <<"P","A","R","T">>,                                                  \* 'PART'
    <<"D","E","S","C">>,                                                  \* 'DESC'
    <<"P","a","r","t"," ","N","o">>,                                      \* 'Part No'
    <<"P","A","R","T","_","N","O">>,                                      \* 'PART_NO'
    <<"L","i","n","e"," ","L","o","c","a","t","i","o","n">>,              \* 'Line Location'
    <<"L","o","c","a","t","i","o","n"," ","o","f"," ","L","i","n","e">>,  \* 'Location of Line'
    <<"P","a","r","t"," ","D","e","s","c","r","i","p","t","i","o","n">>,  \* 'Part Description'
    <<"#">>,                                                              \* '#'
    <<"R","e","m","a","r","k","s">> }                                     \* 'Remarks'

\* df.columns: distinct names, in file order
ColumnSeqs ==
  { cols \in UNION { [1..n -> ColumnPool] : n \in 1..MaxCols } :
      \A i, j \in DOMAIN cols : i # j => cols[i] # cols[j] }

\* the column names of the data files run through the whole generator
DatasetPool ==
  { <<"A","s","s","y"," ","N","a","m","e">>,                              \* 'Assy Name'
    <<"P","A","R","T">>,                                                  \* 'PART'
    <<"D","E","S","C">>,                                                  \* 'DESC'
    <<"L","i","n","e"," ","L","o","c","a","t","i","o","n">> }             \* 'Line Location'

DatasetColumnSeqs == { cols \in ColumnSeqs : Range(cols) \subseteq DatasetPool }

\* the values a cell may hold: missing, empty, and a text that is over-long
\* as a line location (five underscore-separated segments)
CellValues ==
  << NaN, Str(EmptyStr), Str(<<"A","_","B","_","C","_","D","_","E">>) >>

\* the rows a file may carry: every column shifted through CellValues
RowPool(n) ==
  { [j \in 1..n |-> CellValues[((j + t) % Len(CellValues)) + 1]] :
      t \in DOMAIN CellValues }

\* pd.read_csv / pd.read_excel give the rows the labels 0 .. N-1
RangeIndex(n) == [i \in 1..n |-> i - 1]

NoUpload == [present |-> FALSE, w |-> 0, h |-> 0]

Upload(w, h) == [present |-> TRUE, w |-> w, h |-> h]

\* st.session_state.uploaded_logo: nothing, or an image of w x h pixels
LogoUploads ==
  { NoUpload, Upload(2, 1), Upload(1, 3), Upload(400, 1), Upload(0, 0) }

\* datetime.datetime.now().strftime("%d-%m-%Y")
today_date == <<"0","1","-","0","1","-","2","0","2","4">>

(* -------------------------------- state ------------------------------- *)

VARIABLES
  pc,             \* position in generate_sticker_labels
  columns,        \* df.columns
  total_rows,     \* len(df)
  df_index,       \* the row labels df.iterrows() yields
  df_rows,        \* the rows of df, in file order
  found_columns,  \* canonical key -> raw column
  st_errors,      \* messages passed to st.error, in order
  tmp_file,       \* the temporary PDF: "none", "exists" or "deleted"
  logo_calls,     \* calls of process_uploaded_logo
  first_box_logo, \* its result (LogoNone when absent or failed)
  row_i,          \* rows processed so far
  qr_payloads,    \* qr_data handed to generate_qr_code, per row
  all_elements,   \* flowables collected for doc.build
  result,         \* "pending", "None" (None, None) or "pdf"
  call,           \* a pure function's arguments (function specifications)
  ret             \* and its result

vars ==
  << pc, columns, total_rows, df_index, df_rows, found_columns, st_errors, tmp_file,
     logo_calls, first_box_logo, row_i, qr_payloads, all_elements, result,
     call, ret >>

NoCall == [fn |-> "none"]

NoRet == [done |-> FALSE]

(* ---------------------------- label content --------------------------- *)

Cell(kind, s) == [kind |-> kind, s |-> s, w |-> 0, h |-> 0]

EmptyCell == Cell("empty", EmptyStr)

Text(s) == Cell("text", s)

Paragraph(s) == Cell("paragraph", s)

ImageCell(img) == [kind |-> "image", s |-> EmptyStr, w |-> img.w, h |-> img.h]

QrImage(data) == Cell("qr", data)

PageBreak == [table |-> "PageBreak", data |-> <<>>]

ColIdx(cols, col) == CHOOSE i \in DOMAIN cols : cols[i] = col

\* row[found_columns[key]]
RowValue(cols, found, row, key) == row[ColIdx(cols, found[key])]

\* lines 279-281: mandatory fields, "N/A" when the key is unresolved
Mandatory(cols, found, row, key) ==
  IF key \in DOMAIN found
    THEN PyStr(RowValue(cols, found, row, key))
    ELSE <<"N","/","A">>

\* lines 282-284: optional fields, '' when unresolved or missing
Optional(cols, found, row, key) ==
  IF key \in DOMAIN found /\ ~RowValue(cols, found, row, key).isna
    THEN PyStr(RowValue(cols, found, row, key))
    ELSE EmptyStr

NL == "\n"

QrDataTypeFirst(ASSLY, part_no, desc, Part_per_veh, Type, line_location_raw) ==
  <<"A","S","S","L","Y",":"," ">> \o ASSLY \o <<NL>>
    \o <<"P","a","r","t"," ","N","o",":"," ">> \o part_no \o <<NL>>
    \o <<"D","e","s","c","r","i","p","t","i","o","n",":"," ">> \o desc \o <<NL>>
    \o (IF Type # EmptyStr
          THEN <<"T","y","p","e",":"," ">> \o Type \o <<NL>>
          ELSE EmptyStr)
    \o (IF Part_per_veh # EmptyStr
          THEN <<"Q","T","Y","/","V","E","H",":"," ">> \o Part_per_veh \o <<NL>>
          ELSE EmptyStr)
    \o (IF line_location_raw # EmptyStr
          THEN <<"L","i","n","e"," ","L","o","c","a","t","i","o","n",":"," ">>
                 \o line_location_raw \o <<NL>>
          ELSE EmptyStr)
    \o <<"D","a","t","e",":"," ">> \o today_date

\* lines 288-295
QrData(ASSLY, part_no, desc, Part_per_veh, Type, line_location_raw) ==
  <<"A","S","S","L","Y",":"," ">> \o ASSLY \o <<NL>>
    \o <<"P","a","r","t"," ","N","o",":"," ">> \o part_no \o <<NL>>
    \o <<"D","e","s","c","r","i","p","t","i","o","n",":"," ">> \o desc \o <<NL>>
    \o (IF Part_per_veh # EmptyStr
          THEN <<"Q","T","Y","/","V","E","H",":"," ">> \o Part_per_veh \o <<NL>>
          ELSE EmptyStr)
    \o (IF Type # EmptyStr
          THEN <<"T","y","p","e",":"," ">> \o Type \o <<NL>>
          ELSE EmptyStr)
    \o (IF line_location_raw # EmptyStr
          THEN <<"L","i","n","e"," ","L","o","c","a","t","i","o","n",":"," ">>
                 \o line_location_raw \o <<NL>>
          ELSE EmptyStr)
    \o <<"D","a","t","e",":"," ">> \o today_date

\* Paragraph(box, location_style) if box else ""
LocationBox(box) == IF box # EmptyStr THEN Paragraph(box) ELSE EmptyCell

\* first_box_logo if first_box_logo else ""
FirstBoxContent(logo) == IF logo.ok THEN ImageCell(logo) ELSE EmptyCell

\* the four tables of one label (lines 320-328, 350-353, 427)
LabelTables(cols, found, row, logo, qr_ok) ==
  LET ASSLY        == Mandatory(cols, found, row, "ASSLY")
      part_no      == Mandatory(cols, found, row, "part_no")
      desc         == Mandatory(cols, found, row, "description")
      Part_per_veh == Optional(cols, found, row, "Part_per_veh")
      Type         == Optional(cols, found, row, "Type")
      line_location_raw == Optional(cols, found, row, "line_location")
      location_boxes == parse_line_location(Str(line_location_raw))
      qr_data == QrData(ASSLY, part_no, desc, Part_per_veh, Type, line_location_raw)
      qr_cell == IF qr_ok THEN QrImage(qr_data) ELSE Paragraph(<<"Q","R">>)
  IN  << [table |-> "assly",
          data  |-> << << FirstBoxContent(logo), Text(<<"A","S","S","L","Y">>),
                          Paragraph(ASSLY) >> >>],
         [table |-> "top",
          data  |-> << << Text(<<"P","A","R","T"," ","N","O">>), Paragraph(part_no) >>,
                       << Text(<<"P","A","R","T"," ","D","E","S","C">>), Paragraph(desc) >> >>],
         [table |-> "middle",
          data  |-> << << Text(<<"Q","T","Y","/","V","E","H">>), Paragraph(Part_per_veh), qr_cell >>,
                       << Text(<<"T","Y","P","E">>), Paragraph(Type), EmptyCell >>,
                       << Text(<<"D","A","T","E">>), Paragraph(today_date), EmptyCell >> >>],
         [table |-> "bottom",
          data  |-> << << Text(<<"L","I","N","E"," ","L","O","C","A","T","I","O","N">>),
                          LocationBox(location_boxes[1]), LocationBox(location_boxes[2]),
                          LocationBox(location_boxes[3]), LocationBox(location_boxes[4]) >> >>] >>

\* the qr_data of a row, as handed to generate_qr_code
RowQrData(cols, found, row) ==
  QrData(Mandatory(cols, found, row, "ASSLY"),
         Mandatory(cols, found, row, "part_no"),
         Mandatory(cols, found, row, "description"),
         Optional(cols, found, row, "Part_per_veh"),
         Optional(cols, found, row, "Type"),
         Optional(cols, found, row, "line_location"))

(* ----------------------- generate_sticker_labels ---------------------- *)

\* 9.8 cm, in hundredths of a cm
CONTENT_BOX_WIDTH == 980

\* (content_width * 0.25) / cm
first_box_width_cm == (CONTENT_BOX_WIDTH * 25) \div 100

\* 0.75 cm
first_box_height_cm == 75

Init ==
  /\ pc = "find"
  /\ columns \in DatasetColumnSeqs
  /\ total_rows \in 0..MaxRows
  /\ df_index = RangeIndex(total_rows)
  /\ df_rows \in [1..total_rows -> RowPool(Len(columns))]
  /\ found_columns = <<>>
  /\ st_errors = <<>>
  /\ tmp_file = "none"
  /\ logo_calls = 0
  /\ first_box_logo = LogoNone
  /\ row_i = 0
  /\ qr_payloads = <<>>
  /\ all_elements = <<>>
  /\ result = "pending"
  /\ call = NoCall
  /\ ret = NoRet

\* lines 173-178
FindColumns ==
  /\ pc = "find"
  /\ found_columns' = FoundColumns(columns)
  /\ pc' = "check"
  /\ UNCHANGED << columns, total_rows, df_index, df_rows, st_errors, tmp_file, logo_calls,
                  first_box_logo, row_i, qr_payloads, all_elements, result, call, ret >>

CheckRequiredNoReturn ==
  /\ pc = "check"
  /\ st_errors' = IF MissingRequired(found_columns) # <<>>
                    THEN Append(st_errors, "Missing required columns")
                    ELSE st_errors
  /\ pc' = "tmpfile"
  /\ UNCHANGED << columns, total_rows, df_index, df_rows, found_columns, tmp_file, logo_calls,
                  first_box_logo, row_i, qr_payloads, all_elements, result, call, ret >>

\* lines 180-186
CheckRequired ==
  /\ pc = "check"
  /\ IF MissingRequired(found_columns) # <<>>
       THEN /\ st_errors' = Append(st_errors, "Missing required columns")
            /\ result' = "None"
            /\ pc' = "done"
       ELSE /\ pc' = "tmpfile"
            /\ UNCHANGED << st_errors, result >>
  /\ UNCHANGED << columns, total_rows, df_index, df_rows, found_columns, tmp_file, logo_calls,
                  first_box_logo, row_i, qr_payloads, all_elements, call, ret >>

\* lines 188-190
CreateTempFile ==
  /\ pc = "tmpfile"
  /\ tmp_file' = "exists"
  /\ pc' = "logo"
  /\ UNCHANGED << columns, total_rows, df_index, df_rows, found_columns, st_errors, logo_calls,
                  first_box_logo, row_i, qr_payloads, all_elements, result, call, ret >>

ProcessLogoFatal ==
  /\ pc = "logo"
  /\ \E upload \in LogoUploads :
       IF ~upload.present
         THEN /\ pc' = "rows"
              /\ UNCHANGED << logo_calls, first_box_logo, st_errors, result >>
         ELSE \E logo \in process_uploaded_logo(upload, first_box_width_cm, first_box_height_cm) :
                /\ logo_calls' = logo_calls + 1
                /\ first_box_logo' = logo
                /\ IF logo.ok
                     THEN /\ pc' = "rows"
                          /\ UNCHANGED << st_errors, result >>
                     ELSE /\ st_errors' = st_errors \o
                               << "Error processing uploaded logo",
                                  "Failed to process uploaded logo" >>
                          /\ result' = "None"
                          /\ pc' = "done"
  /\ UNCHANGED << columns, total_rows, df_index, df_rows, found_columns, tmp_file,
                  row_i, qr_payloads, all_elements, call, ret >>

\* lines 250-267
ProcessLogo ==
  /\ pc = "logo"
  /\ \E upload \in LogoUploads :
       IF ~upload.present
         THEN UNCHANGED << logo_calls, first_box_logo, st_errors >>
         ELSE \E logo \in process_uploaded_logo(upload, first_box_width_cm, first_box_height_cm) :
                /\ logo_calls' = logo_calls + 1
                /\ first_box_logo' = logo
                /\ st_errors' = IF logo.ok
                                  THEN st_errors
                                  ELSE st_errors \o
                                         << "Error processing uploaded logo",
                                            "Failed to process uploaded logo" >>
  /\ pc' = "rows"
  /\ UNCHANGED << columns, total_rows, df_index, df_rows, found_columns, tmp_file,
                  row_i, qr_payloads, all_elements, result, call, ret >>

\* st.progress accepts a float only within [0.0, 1.0]
ProgressOk(index) == 0 <= index + 1 /\ index + 1 <= total_rows

ProcessRowDropOnQrFailure ==
  /\ pc = "rows"
  /\ row_i < total_rows
  /\ LET index == df_index[row_i + 1]
         row   == df_rows[row_i + 1]
     IN  IF ~ProgressOk(index)
           THEN /\ st_errors' = Append(st_errors, "Error generating sticker labels")
                /\ result' = "None"
                /\ pc' = "done"
                /\ UNCHANGED << row_i, qr_payloads, all_elements >>
           ELSE \E qr_ok \in BOOLEAN :
                  /\ qr_payloads' = Append(qr_payloads, RowQrData(columns, found_columns, row))
                  /\ st_errors' = IF qr_ok THEN st_errors
                                  ELSE Append(st_errors, "Error generating QR code")
                  /\ all_elements' =
                       IF qr_ok
                         THEN all_elements
                                \o LabelTables(columns, found_columns, row, first_box_logo, qr_ok)
                                \o (IF index < total_rows - 1 THEN <<PageBreak>> ELSE <<>>)
                         ELSE all_elements
                  /\ row_i' = row_i + 1
                  /\ UNCHANGED << pc, result >>
  /\ UNCHANGED << columns, total_rows, df_index, df_rows, found_columns, tmp_file, logo_calls,
                  first_box_logo, call, ret >>

\* lines 273-433, one iteration of  for index, row in df.iterrows()
ProcessRow ==
  /\ pc = "rows"
  /\ row_i < total_rows
  /\ LET index == df_index[row_i + 1]
         row   == df_rows[row_i + 1]
     IN  IF ~ProgressOk(index)
           THEN \* the exception reaches the handler of lines 450-452
                /\ st_errors' = Append(st_errors, "Error generating sticker labels")
                /\ result' = "None"
                /\ pc' = "done"
                /\ UNCHANGED << row_i, qr_payloads, all_elements >>
           ELSE \E qr_ok \in BOOLEAN :
                  /\ qr_payloads' = Append(qr_payloads, RowQrData(columns, found_columns, row))
                  /\ st_errors' = IF qr_ok THEN st_errors
                                  ELSE Append(st_errors, "Error generating QR code")
                  /\ all_elements' =
                       all_elements
                         \o LabelTables(columns, found_columns, row, first_box_logo, qr_ok)
                         \o (IF index < total_rows - 1 THEN <<PageBreak>> ELSE <<>>)
                  /\ row_i' = row_i + 1
                  /\ UNCHANGED << pc, result >>
  /\ UNCHANGED << columns, total_rows, df_index, df_rows, found_columns, tmp_file, logo_calls,
                  first_box_logo, call, ret >>

\* lines 435-452: doc.build, read back, os.unlink; an exception in doc.build or
\* in reading the file reaches the handler, which does not unlink
BuildPdf ==
  /\ pc = "rows"
  /\ row_i = total_rows
  /\ \E built \in BOOLEAN :
       IF built
         THEN /\ tmp_file' = "deleted"
              /\ result' = "pdf"
              /\ UNCHANGED st_errors
         ELSE /\ st_errors' = Append(st_errors, "Error generating sticker labels")
              /\ result' = "None"
              /\ UNCHANGED tmp_file
  /\ pc' = "done"
  /\ UNCHANGED << columns, total_rows, df_index, df_rows, found_columns, logo_calls,
                  first_box_logo, row_i, qr_payloads, all_elements, call, ret >>

Next ==
  \/ FindColumns
  \/ CheckRequired
  \/ CreateTempFile
  \/ ProcessLogo
  \/ ProcessRow
  \/ BuildPdf

Spec == Init /\ [][Next]_vars

(* ------------------- column resolution, on its own -------------------- *)

\* lines 173-186 over every column sequence of ColumnSeqs
InitResolve ==
  /\ pc = "find"
  /\ columns \in ColumnSeqs
  /\ total_rows = 0
  /\ df_index = <<>>
  /\ df_rows = <<>>
  /\ found_columns = <<>>
  /\ st_errors = <<>>
  /\ tmp_file = "none"
  /\ logo_calls = 0
  /\ first_box_logo = LogoNone
  /\ row_i = 0
  /\ qr_payloads = <<>>
  /\ all_elements = <<>>
  /\ result = "pending"
  /\ call = NoCall
  /\ ret = NoRet

NextResolve ==
  \/ FindColumns
  \/ CheckRequired

ResolveSpec == InitResolve /\ [][NextResolve]_vars

(* ------------------- the pure functions, called alone ------------------ *)

MaxLocLen == 6

LocChars == {"A", "B", "_"}

\* the arguments parse_line_location may be given
LocationInputs ==
  {NaN} \cup { Str(s) : s \in UNION { [1..n -> LocChars] : n \in 0..MaxLocLen } }

Idle ==
  /\ pc = "call"
  /\ columns = <<>>
  /\ total_rows = 0
  /\ df_index = <<>>
  /\ df_rows = <<>>
  /\ found_columns = <<>>
  /\ st_errors = <<>>
  /\ tmp_file = "none"
  /\ logo_calls = 0
  /\ first_box_logo = LogoNone
  /\ row_i = 0
  /\ qr_payloads = <<>>
  /\ all_elements = <<>>
  /\ result = "pending"

InitParse ==
  /\ Idle
  /\ call \in { [fn |-> "parse_line_location", arg |-> v] : v \in LocationInputs }
  /\ ret = NoRet

CallParse ==
  /\ pc = "call"
  /\ call.fn = "parse_line_location"
  /\ ret' = [done |-> TRUE, value |-> parse_line_location(call.arg)]
  /\ pc' = "returned"
  /\ UNCHANGED << columns, total_rows, df_index, df_rows, found_columns, st_errors, tmp_file,
                  logo_calls, first_box_logo, row_i, qr_payloads, all_elements,
                  result, call >>

NextParse == CallParse

ParseSpec == InitParse /\ [][NextParse]_vars

MaxSrc == 6

MaxTarget == 4

\* target boxes in hundredths of a cm: tiny boxes and the generator's own
TargetBoxes ==
  ((0..MaxTarget) \X (0..MaxTarget))
    \cup {<<first_box_width_cm, first_box_height_cm>>}

\* banners and strips: images far wider or taller than the generator's box
ExtremeImages == { Upload(400, 1), Upload(1, 400), Upload(400, 2), Upload(2, 400) }

InitFit ==
  /\ Idle
  /\ call \in { [fn |-> "process_uploaded_logo", img |-> Upload(w, h),
                  target_width_cm |-> box[1], target_height_cm |-> box[2]] :
                  w \in 0..MaxSrc, h \in 0..MaxSrc, box \in TargetBoxes }
             \cup
             { [fn |-> "process_uploaded_logo", img |-> img,
                target_width_cm |-> first_box_width_cm,
                target_height_cm |-> first_box_height_cm] : img \in ExtremeImages }
  /\ ret = NoRet

CallFit ==
  /\ pc = "call"
  /\ call.fn = "process_uploaded_logo"
  /\ \E logo \in process_uploaded_logo(call.img, call.target_width_cm,
                                       call.target_height_cm) :
       ret' = [done |-> TRUE, value |-> logo]
  /\ pc' = "returned"
  /\ UNCHANGED << columns, total_rows, df_index, df_rows, found_columns, st_errors, tmp_file,
                  logo_calls, first_box_logo, row_i, qr_payloads, all_elements,
                  result, call >>

NextFit == CallFit

FitSpec == InitFit /\ [][NextFit]_vars

(* ------------------------------- claims ------------------------------- *)

Resolved == pc # "find"

\* i-th alias of a key matches a column exactly / by containment either way
ExactMatch(alias, col) ==
  normalize_column_name(alias) = normalize_column_name(col)

ContainMatch(alias, col) ==
  \/ IsSubstr(normalize_column_name(alias), normalize_column_name(col))
  \/ IsSubstr(normalize_column_name(col), normalize_column_name(alias))

\* the (alias, column) places that make a column a candidate of a key
ExactPairs(key) ==
  LET alias == NormNames(column_mappings[key])
      col   == NormNames(columns)
  IN  { p \in (DOMAIN alias) \X (DOMAIN col) : alias[p[1]] = col[p[2]] }

ContainPairs(key) ==
  LET alias == NormNames(column_mappings[key])
      col   == NormNames(columns)
  IN  { p \in (DOMAIN alias) \X (DOMAIN col) :
          IsSubstr(alias[p[1]], col[p[2]]) \/ IsSubstr(col[p[2]], alias[p[1]]) }

HasCandidate(key) == ExactPairs(key) # {} \/ ContainPairs(key) # {}

\* C1: a canonical field other than LineLocation with no column matching any
\* of its aliases (exactly or by containment) stays unresolved, even when a
\* column carries the line-location keywords.
C1_HeuristicBindsLineLocationOnly ==
  Resolved =>
    \A key \in Range(KeyOrder) \ {"line_location"} :
      ~HasCandidate(key) => key \notin DOMAIN found_columns

\* C2: a non-empty list of missing required columns is reported if and only
\* if one of Assembly, PartNumber, Description has no candidate column.
C2_MissingIffNoCandidate ==
  (pc \notin {"find", "check"}) =>
    (("Missing required columns" \in Range(st_errors))
       <=> (\E key \in Range(required_columns) : ~HasCandidate(key)))

\* C3: with a mandatory field unresolved the schema error is reported exactly
\* once and (None, None) is returned before anything else happens: no
\* temporary file, no logo processing, no QR code, no label element.
C3_SchemaErrorAbortsFirst ==
  (pc \notin {"find", "check"} /\ MissingRequired(found_columns) # <<>>) =>
    /\ st_errors = <<"Missing required columns">>
    /\ result = "None"
    /\ pc = "done"
    /\ tmp_file = "none"
    /\ logo_calls = 0
    /\ row_i = 0
    /\ qr_payloads = <<>>
    /\ all_elements = <<>>

C3_Witness ==
  /\ pc = "done"
  /\ MissingRequired(found_columns) # <<>>
  /\ total_rows > 0
  /\ result = "None"

\* C4: the column bound to a field is the first match under the order
\* "declared alias order, then raw-column order" of its tier; of two columns
\* with the same normalized name the earlier one is bound.
C4_FirstMatchWins ==
  Resolved =>
    \A key \in Range(KeyOrder) :
      /\ ExactPairs(key) # {} =>
           /\ key \in DOMAIN found_columns
           /\ found_columns[key] = columns[LexMin(ExactPairs(key))[2]]
      /\ (ExactPairs(key) = {} /\ ContainPairs(key) # {}) =>
           /\ key \in DOMAIN found_columns
           /\ found_columns[key] = columns[LexMin(ContainPairs(key))[2]]

\* the aliases of a key, by place, that some column equals after normalization
ExactAliases(key) == { p[1] : p \in ExactPairs(key) }

\* C5: a field with a column equal, after normalization, to one of its
\* aliases is bound to a column whose normalized name is the earliest such
\* alias, whatever else matches by containment or by the line-location
\* keywords.
C5_ExactMatchFirst ==
  Resolved =>
    \A key \in Range(KeyOrder) :
      ExactAliases(key) # {} =>
        /\ key \in DOMAIN found_columns
        /\ normalize_column_name(found_columns[key])
             = normalize_column_name(column_mappings[key][MinOf(ExactAliases(key))])

\* an exact match bound although an earlier column matches by containment only
C5_Witness ==
  /\ Resolved
  /\ \E key \in Range(KeyOrder) :
       /\ ExactAliases(key) # {}
       /\ key \in DOMAIN found_columns
       /\ \E i, j \in DOMAIN columns :
            /\ i < j
            /\ found_columns[key] = columns[j]
            /\ \E a \in DOMAIN column_mappings[key] :
                 ContainMatch(column_mappings[key][a], columns[i])
            /\ \A a \in DOMAIN column_mappings[key] :
                 ~ExactMatch(column_mappings[key][a], columns[i])

\* the places of the underscores of s, with 0 before and Len(s) + 1 after
Cuts(s) == {0, Len(s) + 1} \cup { i \in DOMAIN s : s[i] = "_" }

NumSegments(s) == Cardinality(Cuts(s)) - 1

\* the i-th cut, counting from 0
Cut(s, i) == CHOOSE c \in Cuts(s) : Cardinality({ d \in Cuts(s) : d < c }) = i

\* the i-th underscore-separated segment of s, 1 <= i <= NumSegments(s)
Segment(s, i) == SubSeq(s, Cut(s, i - 1) + 1, Cut(s, i) - 1)

\* C6: parse_line_location returns exactly 4 strings, the i-th being the i-th
\* underscore-separated segment of the input when it has one and the empty
\* string otherwise (always, for a missing value); further segments are
\* dropped.
C6_FourSegments ==
  (pc = "returned" /\ call.fn = "parse_line_location") =>
    /\ Len(ret.value) = 4
    /\ \A i \in 1..4 :
         ret.value[i] =
           IF ~call.arg.isna /\ i <= NumSegments(call.arg.s)
             THEN Segment(call.arg.s, i)
             ELSE EmptyStr

\* fewer than four segments, padded
C6_Witness ==
  /\ pc = "returned"
  /\ call.fn = "parse_line_location"
  /\ ~call.arg.isna
  /\ NumSegments(call.arg.s) = 2
  /\ ret.value[1] # EmptyStr
  /\ ret.value[2] # EmptyStr
  /\ ret.value[4] = EmptyStr

FitReturned == pc = "returned" /\ call.fn = "process_uploaded_logo"

\* C7: for a source image and a target box of positive dimensions the fitted
\* width and height, converted back to cm (px * 2.54 / 300), do not exceed
\* the target width and height.
C7_FitWithinBox ==
  (/\ FitReturned
   /\ ret.value.ok
   /\ call.img.w > 0 /\ call.img.h > 0
   /\ call.target_width_cm > 0 /\ call.target_height_cm > 0) =>
    /\ ret.value.w * HundredthsPerInch <= call.target_width_cm * DPI
    /\ ret.value.h * HundredthsPerInch <= call.target_height_cm * DPI

\* a wide and a tall fit both occur; this is the wide one
C7_Witness ==
  /\ FitReturned
  /\ ret.value.ok
  /\ call.img.w > call.img.h
  /\ ret.value.w = CmToPx(call.target_width_cm)
  /\ ret.value.h < CmToPx(call.target_height_cm)

Abs(x) == IF x < 0 THEN -x ELSE x

\* C8 as stated: whenever a fit is returned the rendered aspect ratio is
\* within a relative error of 1% of the source aspect ratio.
C8_AspectWithinOnePercent ==
  (FitReturned /\ ret.value.ok) =>
    100 * Abs(ret.value.w * call.img.h - call.img.w * ret.value.h)
      < call.img.w * ret.value.h

\* C8 amended: whenever a fit is returned, one rendered dimension is the
\* box's pixel dimension and the other is the exact aspect-preserving value
\* truncated to whole pixels: never above it and at most one pixel below it.
C8_AspectWithinOnePixel ==
  (FitReturned /\ ret.value.ok) =>
    LET box_width_px  == CmToPx(call.target_width_cm)
        box_height_px == CmToPx(call.target_height_cm)
    IN  \/ /\ ret.value.w = box_width_px
           /\ ret.value.h * call.img.w <= box_width_px * call.img.h
           /\ box_width_px * call.img.h <= (ret.value.h + 1) * call.img.w
        \/ /\ ret.value.h = box_height_px
           /\ ret.value.w * call.img.h <= box_height_px * call.img.w
           /\ box_height_px * call.img.w <= (ret.value.w + 1) * call.img.h

\* a fit whose aspect ratio is off by more than 1% and within one pixel
C8_Witness ==
  /\ FitReturned
  /\ ret.value.ok
  /\ 100 * Abs(ret.value.w * call.img.h - call.img.w * ret.value.h)
       >= call.img.w * ret.value.h
  /\ ret.value.w # ret.value.h

\* C9: a source image of zero width or height, or a target box of zero pixel
\* width or height, ends in the error outcome, and no returned image has a
\* zero dimension.
C9_DegenerateInputFails ==
  FitReturned =>
    /\ (\/ call.img.w = 0
        \/ call.img.h = 0
        \/ CmToPx(call.target_width_cm) = 0
        \/ CmToPx(call.target_height_cm) = 0) => ~ret.value.ok
    /\ ret.value.ok => (ret.value.w >= 1 /\ ret.value.h >= 1)

\* a zero-width image into a box of positive size: the resize is refused
C9_Witness ==
  /\ FitReturned
  /\ call.img.w = 0
  /\ call.img.h > 0
  /\ CmToPx(call.target_width_cm) > 0
  /\ CmToPx(call.target_height_cm) > 0
  /\ ~ret.value.ok

LogoFailed == logo_calls > 0 /\ ~first_box_logo.ok

AsslyTables == { i \in DOMAIN all_elements : all_elements[i].table = "assly" }

\* C10: a failed logo is not fatal: generation goes on through every row,
\* each row still gets its label, and the first cell of each label's
\* assembly row is empty.
C10_LogoFailureNotFatal ==
  LogoFailed =>
    /\ pc \in {"rows", "done"}
    /\ pc = "done" => row_i = total_rows
    /\ Cardinality(AsslyTables) = row_i
    /\ \A i \in AsslyTables : all_elements[i].data[1][1].kind = "empty"
    /\ "Missing required columns" \notin Range(st_errors)

C10_Witness ==
  /\ LogoFailed
  /\ pc = "done"
  /\ result = "pdf"
  /\ total_rows >= 2
  /\ Cardinality(AsslyTables) = total_rows

(* ------------------------------ QR payload ----------------------------- *)

\* the label that begins a field's line of the QR payload
FieldLabel ==
  [ASSLY         |-> <<"A","S","S","L","Y">>,
   part_no       |-> <<"P","a","r","t"," ","N","o">>,
   description   |-> <<"D","e","s","c","r","i","p","t","i","o","n">>,
   Part_per_veh  |-> <<"Q","T","Y","/","V","E","H">>,
   Type          |-> <<"T","y","p","e">>,
   line_location |-> <<"L","i","n","e"," ","L","o","c","a","t","i","o","n">>]

HasPrefix(line, p) == Len(line) >= Len(p) /\ SubSeq(line, 1, Len(p)) = p

PayloadLines(payload) == Split(payload, NL)

\* the payload has a line '<Label>: ...' for the field
HasFieldLine(payload, key) ==
  \E i \in DOMAIN PayloadLines(payload) :
    HasPrefix(PayloadLines(payload)[i], FieldLabel[key] \o <<":"," ">>)

\* the field has no column, or the row's cell is missing or the empty string
FieldEmpty(cols, found, row, key) ==
  \/ key \notin DOMAIN found
  \/ RowValue(cols, found, row, key).isna
  \/ RowValue(cols, found, row, key).s = EmptyStr

\* C11: for every row and each of the six fields, a field whose value is
\* absent or empty has no line in the row's QR payload; a line appears only
\* for a field with a non-empty value.
C11_EmptyFieldsSkipped ==
  \A r \in DOMAIN qr_payloads :
    \A key \in Range(KeyOrder) :
      FieldEmpty(columns, found_columns, df_rows[r], key)
        => ~HasFieldLine(qr_payloads[r], key)

(* --------------- the QR payload of one row, built alone --------------- *)

\* column names of the files the payload is built from, in a reference order
PayloadPool ==
  << <<"A","s","s","y"," ","N","a","m","e">>,                             \* 'Assy Name'
     <<"P","A","R","T">>,                                                 \* 'PART'
     <<"D","E","S","C">>,                                                 \* 'DESC'
     <<"Q","t","y","/","V","e","h">>,                                     \* 'Qty/Veh'
     <<"T","y","p","e">>,                                                 \* 'Type'
     <<"L","i","n","e"," ","L","o","c","a","t","i","o","n">>,             \* 'Line Location'
     <<"P","a","r","t"," ","A">>,                                         \* 'Part A'
     <<"P","a","r","t"," ","B">> >>                                       \* 'Part B'

PoolIdx(col) == CHOOSE i \in DOMAIN PayloadPool : PayloadPool[i] = col

\* the column sets of the files: all six fields, three fields and Type, and a
\* file with two part-number columns
PayloadColumnSets ==
  { { PayloadPool[i] : i \in S } : S \in { 1..6, {1, 2, 3, 5}, {1, 3, 7, 8} } }

\* every order the columns of a file may come in
PayloadColumnSeqs ==
  UNION { { cols \in [1..Cardinality(S) -> S] :
              \A i, j \in DOMAIN cols : i # j => cols[i] # cols[j] } :
          S \in PayloadColumnSets }

\* the cell of a column in the t-th row: in row 0 every cell holds a text of
\* its own, the other rows shift the columns through CellValues
NamedCell(col, t) ==
  IF t = 0
    THEN Str(<<"V", Digits[PoolIdx(col) + 1]>>)
    ELSE CellValues[((PoolIdx(col) + t) % Len(CellValues)) + 1]

NamedRow(cols, t) == [j \in DOMAIN cols |-> NamedCell(cols[j], t)]

NoPayload == [ok |-> FALSE, found |-> <<>>, qr_data |-> EmptyStr]

\* lines 173-186 and 279-295: the qr_data of a row of a file, or nothing when
\* a required column is missing
qr_data_of(cols, row) ==
  LET found == FoundColumns(cols)
  IN  IF MissingRequired(found) # <<>>
        THEN NoPayload
        ELSE [ok |-> TRUE, found |-> found, qr_data |-> RowQrData(cols, found, row)]

InitPayload ==
  /\ Idle
  /\ call \in { [fn |-> "qr_data", columns |-> cols, t |-> t, row |-> NamedRow(cols, t)] :
                 cols \in PayloadColumnSeqs, t \in 0..Len(CellValues) }
  /\ ret = NoRet

CallQrData ==
  /\ pc = "call"
  /\ call.fn = "qr_data"
  /\ ret' = [done |-> TRUE, value |-> qr_data_of(call.columns, call.row)]
  /\ pc' = "returned"
  /\ UNCHANGED << columns, total_rows, df_index, df_rows, found_columns, st_errors,
                  tmp_file, logo_calls, first_box_logo, row_i, qr_payloads,
                  all_elements, result, call >>

NextPayload == CallQrData

PayloadSpec == InitPayload /\ [][NextPayload]_vars

\* the labels of the payload's lines in their fixed order, 'Date' last
LineLabels ==
  << FieldLabel.ASSLY, FieldLabel.part_no, FieldLabel.description,
     FieldLabel.Part_per_veh, FieldLabel.Type, FieldLabel.line_location,
     <<"D","a","t","e">> >>

\* the place in LineLabels of the label a line begins with, 0 for none
LineField(line) ==
  LET S == { k \in DOMAIN LineLabels : HasPrefix(line, LineLabels[k] \o <<":"," ">>) }
  IN  IF S = {} THEN 0 ELSE MinOf(S)

\* every line carries a label, the labels come in the fixed order, each line
\* but the last ends in a newline, and the last line is 'Date: <date>'
FixedOrder(payload) ==
  LET lines == PayloadLines(payload)
  IN  /\ \A i \in DOMAIN lines : LineField(lines[i]) >= 1
      /\ \A i, j \in DOMAIN lines : i < j => LineField(lines[i]) < LineField(lines[j])
      /\ lines[Len(lines)] = <<"D","a","t","e",":"," ">> \o today_date

\* the file's columns put in the order of PayloadPool
Canonical(cols) == SelectSeq(PayloadPool, LAMBDA c : c \in Range(cols))

PayloadReturned == pc = "returned" /\ call.fn = "qr_data"

\* the payload of the same row of the same file, its columns reordered
ReorderedPayload ==
  qr_data_of(Canonical(call.columns), NamedRow(Canonical(call.columns), call.t))

\* C12 as stated: for every row and every order of the input columns the
\* payload lists its field lines in the fixed order ASSLY, Part No,
\* Description, QTY/VEH, Type, Line Location, each ending in a newline, and
\* ends with 'Date: <date>' without a trailing newline; and the payload is the
\* same for any two files that differ only in column order.
C12_PayloadIndependentOfColumnOrder ==
  PayloadReturned =>
    LET reordered == ReorderedPayload
    IN  /\ ret.value.ok => FixedOrder(ret.value.qr_data)
        /\ ret.value.ok = reordered.ok
        /\ ret.value.qr_data = reordered.qr_data

\* C12 amended: the order of the lines and the closing 'Date: <date>' line
\* are the same for every order of the input columns; two files that differ
\* only in column order give the same payload whenever the resolution binds
\* every field to the same column in both.
C12_FixedLineOrder ==
  PayloadReturned =>
    LET reordered == ReorderedPayload
    IN  /\ ret.value.ok => FixedOrder(ret.value.qr_data)
        /\ (ret.value.ok /\ reordered.ok /\ ret.value.found = reordered.found)
             => ret.value.qr_data = reordered.qr_data

\* all six field lines and the date, from a file whose columns are not in
\* the reference order
C12_Witness ==
  /\ PayloadReturned
  /\ ret.value.ok
  /\ Len(PayloadLines(ret.value.qr_data)) = 7
  /\ call.columns # Canonical(call.columns)
  /\ ret.value.qr_data = ReorderedPayload.qr_data

(* --------------------------- labels and pages -------------------------- *)

\* the tables of all_elements, page breaks left out
LabelTablesOf(elements) == SelectSeq(elements, LAMBDA e : e.table # "PageBreak")

\* the k-th group of four tables
LabelAt(elements, k) == SubSeq(LabelTablesOf(elements), 4 * k - 3, 4 * k)

\* the QR cell of a label: third cell of the first row of its middle table
QrCellOf(label) == label[3].data[1][3]

QrErrors == { i \in DOMAIN st_errors : st_errors[i] = "Error generating QR code" }

RatioUnit == 80

\* slider "Header Width": 0.1 to 0.5 in steps of 0.05
HeaderWidths == { 8 + 4 * k : k \in 0..8 }

\* sliders "Box 1 Width" to "Box 3 Width": 0.1 to 0.4 in steps of 0.0125
BoxWidths == 8..32

line_loc_box4_width_no_box3(header, box1, box2, box3) ==
  RatioUnit - (header + box1 + box2)

\* 1.0 - (header + box 1 + box 2 + box 3), computed exactly; where the exact
\* result is 0 the float of the code is 0.0 or within 1e-15 of it
line_loc_box4_width(header, box1, box2, box3) ==
  RatioUnit - (header + box1 + box2 + box3)

total_width(header, box1, box2, box3, box4) ==
  header + box1 + box2 + box3 + box4

\* abs(total_width - 1.0) > 0.001
TotalWidthRejected(total) == 1000 * Abs(total - RatioUnit) > RatioUnit

\* the column widths of the four row groups, as numerators: the first three
\* over 100, the line location row over RatioUnit
col_widths_assly == << CONTENT_BOX_WIDTH * 25, CONTENT_BOX_WIDTH * 15, CONTENT_BOX_WIDTH * 60 >>

col_widths_standard == << CONTENT_BOX_WIDTH * 25, CONTENT_BOX_WIDTH * 75 >>

col_widths_middle == << CONTENT_BOX_WIDTH * 25, CONTENT_BOX_WIDTH * 35, CONTENT_BOX_WIDTH * 40 >>

col_widths_bottom(ratios) == [i \in DOMAIN ratios |-> CONTENT_BOX_WIDTH * ratios[i]]

InitSettings ==
  /\ Idle
  /\ call \in { [fn |-> "settings", header |-> h, box1 |-> b1, box2 |-> b2, box3 |-> b3] :
                 h \in HeaderWidths, b1 \in BoxWidths, b2 \in BoxWidths, b3 \in BoxWidths }
  /\ ret = NoRet

\* the settings tab of main, and the ratios its generate button passes on
Settings ==
  /\ pc = "call"
  /\ call.fn = "settings"
  /\ LET box4  == line_loc_box4_width(call.header, call.box1, call.box2, call.box3)
         total == total_width(call.header, call.box1, call.box2, call.box3, box4)
     IN  /\ ret' = [done |-> TRUE, total_width |-> total,
                    value |-> << call.header, call.box1, call.box2, call.box3, box4 >>]
         /\ st_errors' = IF TotalWidthRejected(total)
                           THEN Append(st_errors, "Total width must equal 1.0")
                           ELSE st_errors
  /\ pc' = "returned"
  /\ UNCHANGED << columns, total_rows, df_index, df_rows, found_columns, tmp_file,
                  logo_calls, first_box_logo, row_i, qr_payloads, all_elements,
                  result, call >>

NextSettings == Settings

SettingsSpec == InitSettings /\ [][NextSettings]_vars

SettingsReturned == pc = "returned" /\ call.fn = "settings"

\* C14: for every setting of the four sliders each of the five width ratios
\* passed to generate_sticker_labels, the computed box 4 ratio included, is
\* greater than 0 and at most 1.
C14_RatiosInUnitInterval ==
  SettingsReturned =>
    \A i \in DOMAIN ret.value : 0 < ret.value[i] /\ ret.value[i] <= RatioUnit

RECURSIVE SumSeq(_)
SumSeq(s) == IF s = <<>> THEN 0 ELSE s[1] + SumSeq(Tail(s))

\* C15: in every row group the width ratios total exactly 1.0, so the column
\* widths add up to the content width: 0.25+0.15+0.60, 0.25+0.75,
\* 0.25+0.35+0.40, and header + box 1 + box 2 + box 3 + box 4 under every
\* slider setting; the 'Total width must equal 1.0' error is never displayed.
C15_RatiosTotalOne ==
  SettingsReturned =>
    /\ SumSeq(col_widths_assly) = CONTENT_BOX_WIDTH * 100
    /\ SumSeq(col_widths_standard) = CONTENT_BOX_WIDTH * 100
    /\ SumSeq(col_widths_middle) = CONTENT_BOX_WIDTH * 100
    /\ SumSeq(ret.value) = RatioUnit
    /\ ret.total_width = RatioUnit
    /\ SumSeq(col_widths_bottom(ret.value)) = CONTENT_BOX_WIDTH * RatioUnit
    /\ "Total width must equal 1.0" \notin Range(st_errors)

\* the sliders at their largest: box 4 is negative, the total is still 1.0
\* and nothing is reported
C15_Witness ==
  /\ SettingsReturned
  /\ call.header = 40
  /\ call.box1 = 32 /\ call.box2 = 32 /\ call.box3 = 32
  /\ ret.value[5] = -56
  /\ ret.total_width = RatioUnit
  /\ st_errors = <<>>

(* ------------------------------ row heights ---------------------------- *)

\* lines 304-308, in hundredths of a cm
ASSLY_row_height == 85

part_row_height == 80

desc_row_height == 50

bottom_row_height == 60

location_row_height == 50

\* line 347
row_heights ==
  << ASSLY_row_height, part_row_height, desc_row_height, bottom_row_height,
     bottom_row_height, bottom_row_height, location_row_height >>

\* font size and leading, in points, of the styles of the three value cells
\* whose text is wrapped (wordWrap='CJK')
ASSLY_style == [fontSize |-> 9, leading |-> 11]

Part_style == [fontSize |-> 10, leading |-> 13]

desc_style == [fontSize |-> 7, leading |-> 8]

\* the rows of the label whose value cell holds wrapped text of the file:
\* place in row_heights, style, width of the value column (numerator over
\* 100) and left/right cell padding in points
VariableTextRows ==
  [ASSLY       |-> [row |-> 1, style |-> ASSLY_style,
                    width |-> col_widths_assly[3], padding |-> 1],
   part_no     |-> [row |-> 2, style |-> Part_style,
                    width |-> col_widths_standard[2], padding |-> 3],
   description |-> [row |-> 3, style |-> desc_style,
                    width |-> col_widths_standard[2], padding |-> 3]]

MaxTextLen == 70

InitRowHeights ==
  /\ Idle
  /\ call \in { [fn |-> "row_heights", field |-> f, text_len |-> n] :
                 f \in DOMAIN VariableTextRows, n \in 0..MaxTextLen }
  /\ ret = NoRet

\* lines 303-308 and 347-353: the rowHeights given to the four tables of a
\* label whose value cell of call.field holds a text of call.text_len
\* characters
RowHeights ==
  /\ pc = "call"
  /\ call.fn = "row_heights"
  /\ ret' = [done |-> TRUE,
             value |-> << SubSeq(row_heights, 1, 1), SubSeq(row_heights, 2, 3),
                          SubSeq(row_heights, 4, 6), SubSeq(row_heights, 7, 7) >>]
  /\ pc' = "returned"
  /\ UNCHANGED << columns, total_rows, df_index, df_rows, found_columns, st_errors,
                  tmp_file, logo_calls, first_box_logo, row_i, qr_payloads,
                  all_elements, result, call >>

NextRowHeights == RowHeights

RowHeightsSpec == InitRowHeights /\ [][NextRowHeights]_vars

\* lengths below are counted in 1/2540 of a point, so that a point is 2540
\* and a hundredth of a cm (72/254 points) is 720
PerPoint(pt) == pt * 2540

PerHundredthCm(len) == len * 720

\* the width left for the text of the field's value cell
AvailableWidth(field) ==
  LET r == VariableTextRows[field]
  IN  PerHundredthCm(r.width) \div 100 - 2 * PerPoint(r.padding)

\* the width of a digit of Helvetica and Helvetica-Bold is 0.556 em: the
\* width of 1000 digits
GlyphWidth1000(style) == PerPoint(style.fontSize) * 556

\* TextMeasurer.measure for a text of n digits: the text is wrapped at the
\* available width and every wrapped line takes the style's leading; never
\* less than one line
measure(n, style, availableWidth) ==
  LET perLine == (availableWidth * 1000) \div GlyphWidth1000(style)
      lines   == IF n = 0 THEN 1 ELSE (n + perLine - 1) \div perLine
  IN  PerPoint(lines * style.leading)

Max(a, b) == IF a >= b THEN a ELSE b

RowHeightsReturned == pc = "returned" /\ call.fn = "row_heights"

\* the height given to the row of a field, of the heights handed to the tables
RowHeightOf(heights, field) ==
  (heights[1] \o heights[2] \o heights[3] \o heights[4])[VariableTextRows[field].row]

\* C16: the height of the row of the assembly value, the part number and the
\* description is max(default minimum, measured wrapped height of the row's
\* text at the cell's available width): never below the default and never
\* below what the wrapped text requires.
C16_RowHeightFitsText ==
  RowHeightsReturned =>
    LET r        == VariableTextRows[call.field]
        height   == PerHundredthCm(RowHeightOf(ret.value, call.field))
        default  == PerHundredthCm(row_heights[r.row])
        measured == measure(call.text_len, r.style, AvailableWidth(call.field))
    IN  height = Max(default, measured)

(* ------------- generate_sticker_labels on any row labels -------------- *)

\* the columns of the frames below: 'Assy Name', 'PART', 'DESC'
IndexedColumns ==
  << <<"A","s","s","y"," ","N","a","m","e">>, <<"P","A","R","T">>, <<"D","E","S","C">> >>

\* row labels of frames that were filtered, sorted or concatenated
IndexLabels == (-1)..MaxRows

\* a frame of one or more rows whose labels df.iterrows() yields are any
\* integers, repeated or out of order
InitIndexed ==
  /\ pc = "find"
  /\ columns = IndexedColumns
  /\ total_rows \in 1..MaxRows
  /\ df_index \in [1..total_rows -> IndexLabels]
  /\ df_rows \in [1..total_rows -> RowPool(Len(columns))]
  /\ found_columns = <<>>
  /\ st_errors = <<>>
  /\ tmp_file = "none"
  /\ logo_calls = 0
  /\ first_box_logo = LogoNone
  /\ row_i = 0
  /\ qr_payloads = <<>>
  /\ all_elements = <<>>
  /\ result = "pending"
  /\ call = NoCall
  /\ ret = NoRet

IndexedSpec == InitIndexed /\ [][Next]_vars

PageBreaks == { i \in DOMAIN all_elements : all_elements[i] = PageBreak }

\* C17: for a frame of N >= 1 rows that generate_sticker_labels turns into a
\* PDF, whatever its row labels, exactly N-1 page breaks are emitted: one
\* right after each label but the last and none after the last.
C17_PageBreakBetweenLabels ==
  (pc = "done" /\ result = "pdf" /\ total_rows >= 1) =>
    /\ Cardinality(PageBreaks) = total_rows - 1
    /\ Len(all_elements) = 5 * total_rows - 1
    /\ \A i \in DOMAIN all_elements : (i \in PageBreaks) <=> (i % 5 = 0)

\* C18: on every exit path taken after the temporary PDF file was created
\* (a successful build, or an exception while a row is processed or the PDF
\* is built) the file has been deleted when the function returns.
C18_TempFileDeleted ==
  (pc = "done" /\ tmp_file # "none") => tmp_file = "deleted"

\* the call fits an image of at least 1 x 1 pixels into the generator's box
InGeneratorBox ==
  /\ FitReturned
  /\ call.img.w >= 1 /\ call.img.h >= 1
  /\ call.target_width_cm = first_box_width_cm
  /\ call.target_height_cm = first_box_height_cm

\* C19: for every source image of at least 1 x 1 pixels and the logo box of
\* the generator (25% of the 9.8 cm content width by 0.75 cm at 300 DPI) the
\* fitted width and height are both at least 1 pixel and a logo is returned.
C19_GeneratorBoxAlwaysFits ==
  InGeneratorBox =>
    /\ ret.value.ok
    /\ ret.value.w >= 1
    /\ ret.value.h >= 1

=============================================================================
